---- MODULE Spec2Model ----
(***************************************************************************)
(* Internship-LMS backend: the sequential chapter-unlocking and progress   *)
(* state machine (progress.controller), the chapter catalog                *)
(* (chapter.controller) and the tables they share.  Every SQL statement a  *)
(* handler awaits is one atomic step; a handler is the sequence of its     *)
(* statements, so two requests interleave between statements exactly as    *)
(* two Express handlers interleave between awaits.                         *)
(***************************************************************************)
EXTENDS Integers, FiniteSets, Sequences, TLC

\* ------------------------------------------------------------------ data
Students == {"s1", "s2"}
Mentors == {"m1", "m2"}
Courses == {"c1", "c2"}

\* courses table: the mentor_id column of each course row
mentor_id == [c \in Courses |-> IF c = "c1" THEN "m1" ELSE "m2"]

\* chapters ever created when requests run one at a time (ids are never reused)
MaxChapters == 3
\* chapters ever created when two requests run concurrently
ConcChapters == 2
\* ids in the student_ids list of one assignCourse request
MaxStudentIds == 2

\* request slots: two requests can be in flight at once
Procs == {"p1", "p2"}
\* the slot used when requests are issued one at a time
SeqProc == "p1"

\* NULL of a numeric column / "no chapter"
NoChapter == 0

VARIABLES
    chapters,            \* rows [id, course_id, sequence_order]
    progress,            \* rows [student_id, chapter_id, course_id, completed]
    course_assignments,  \* rows [id, course_id, student_id]
    certificates,        \* rows [student_id, course_id]
    nextId,              \* the store's id generator for chapters
    pc,                  \* per slot: the statement the handler awaits next
    req,                 \* per slot: the request and the handler's locals
    res                  \* per slot: the response sent

tables == <<chapters, progress, course_assignments, certificates>>
vars == <<chapters, progress, course_assignments, certificates, nextId, pc, req, res>>

\* ------------------------------------------------------------ requests
\* a field the eligibility result does not carry
NoPercentage == -2

NoEligibility == [eligible |-> FALSE, message |-> "-", percentage |-> NoPercentage]

\* op, user, course, chapter, body, student_ids: the request; ord, eligibility,
\* certificate, index, assignments, errors: the handler's locals; pending: the rows
\* its open transaction has inserted; pre, after, overlap, during, snap, certs, prevCert: what
\* the request found on arrival (recorded for the properties below, read by no
\* handler)
NoAfter == [op |-> "-", pre |-> "-"]

NoReq == [op |-> "none", user |-> "-", course |-> "-", chapter |-> NoChapter,
          ord |-> 0, pre |-> "-", after |-> NoAfter, overlap |-> FALSE,
          during |-> FALSE, snap |-> {}, eligibility |-> NoEligibility, certificate |-> 0,
          certs |-> {}, prevCert |-> 0, body |-> "-", student_ids |-> <<>>, index |-> 0,
          pending |-> {}, assignments |-> <<>>, errors |-> <<>>]

NoRes == [status |-> 0, error |-> "-", total |-> 0, completed |-> 0, percentage |-> 0,
          chapters |-> {}, eligible |-> FALSE, message |-> "-", certificate |-> 0,
          has_certificate |-> FALSE, courses |-> {}, assignments |-> <<>>,
          errors |-> <<>>, chapter |-> [chapter_id |-> NoChapter, title |-> "-"]]

Reply(status, error) == [NoRes EXCEPT !.status = status, !.error = error]

\* the request a client has just been answered and the state that request found,
\* when it succeeded and was made by the same user on the same course and chapter
\* as the request the client issues now
After(p, user, courseId, chapterId) ==
    IF /\ pc[p] = "done"
       /\ res[p].status = 200
       /\ req[p].user = user
       /\ req[p].course = courseId
       /\ req[p].chapter = chapterId
    THEN [op |-> req[p].op, pre |-> req[p].pre]
    ELSE NoAfter

\* a slot can take a new request when it holds none, or only an answered one
CanStart(p) == pc[p] \in {"idle", "done"}

\* ------------------------------------------------------ store queries
ChapterRows(chapterId) == {ch \in chapters : ch.id = chapterId}

ChaptersOf(courseId) == {ch \in chapters : ch.course_id = courseId}

\* the enrollment lookup without its WHERE clause
Enrolled_Anyone(courseId, studentId) == course_assignments # {}

Enrolled(courseId, studentId) ==
    \E ca \in course_assignments : ca.course_id = courseId /\ ca.student_id = studentId

ProgressRows(studentId, chapterId) ==
    {r \in progress : r.student_id = studentId /\ r.chapter_id = chapterId}

\* LEFT JOIN progress p ON ch.id = p.chapter_id AND p.student_id = $1 : p.completed,
\* NULL (read as false by the callers) when the student has no row
JoinedCompleted(studentId, chapterId) ==
    \E r \in ProgressRows(studentId, chapterId) : r.completed

\* the predecessor lookup without "AND p.student_id = $1": any student's row counts
PreviousChapterCheck_AnyStudent(studentId, courseId, seq) ==
    {\E r \in progress : r.chapter_id = ch.id /\ r.completed :
        ch \in {x \in ChaptersOf(courseId) : x.sequence_order = seq}}

\* the predecessor lookup given the chapter's own sequence_order
PreviousChapterCheck_OwnOrder(studentId, courseId, seq) ==
    {JoinedCompleted(studentId, ch.id) :
        ch \in {x \in ChaptersOf(courseId) : x.sequence_order = seq + 1}}

\* the p.completed values of the rows the predecessor lookup returns
PreviousChapterCheck(studentId, courseId, seq) ==
    {JoinedCompleted(studentId, ch.id) :
        ch \in {x \in ChaptersOf(courseId) : x.sequence_order = seq}}

\* the already-completed check looking only at whether a row is absent
ExistingCompleted_Never(studentId, chapterId) == FALSE

\* existingProgress.rows.length > 0 && existingProgress.rows[0].completed
ExistingCompleted(studentId, chapterId) ==
    \E r \in ProgressRows(studentId, chapterId) : r.completed

\* the upsert replacing every row of the chapter, other students' rows included
UpsertProgress_WholeChapter(studentId, chapterId, courseId) ==
    {r \in progress : r.chapter_id # chapterId}
        \cup {[student_id |-> studentId, chapter_id |-> chapterId,
               course_id |-> courseId, completed |-> TRUE]}

\* the upsert storing the course of the request's first course instead of the
\* course_id read from the chapter
UpsertProgress_FixedCourse(studentId, chapterId, courseId) ==
    IF ProgressRows(studentId, chapterId) = {}
    THEN progress \cup {[student_id |-> studentId, chapter_id |-> chapterId,
                         course_id |-> "c1", completed |-> TRUE]}
    ELSE {IF r \in ProgressRows(studentId, chapterId)
          THEN [r EXCEPT !.completed = TRUE] ELSE r : r \in progress}

\* INSERT ... ON CONFLICT (student_id, chapter_id) DO UPDATE SET completed = true
UpsertProgress(studentId, chapterId, courseId) ==
    IF ProgressRows(studentId, chapterId) = {}
    THEN progress \cup {[student_id |-> studentId, chapter_id |-> chapterId,
                         course_id |-> courseId, completed |-> TRUE]}
    ELSE {IF r \in ProgressRows(studentId, chapterId)
          THEN [r EXCEPT !.completed = TRUE] ELSE r : r \in progress}

\* COUNT(*) and COUNT(CASE WHEN p.completed = true THEN 1 END) over the course
TotalChapters(courseId) == Cardinality(ChaptersOf(courseId))

\* 0 / 0 in floating point
NotANumber == -1

\* the percentage with the digits after the second decimal cut off
Percentage_Truncated(completed, total) ==
    IF total = 0 THEN NotANumber ELSE (10000 * completed) \div total

\* Math.round((completed / total) * 100 * 100) / 100, in hundredths of a percent;
\* Math.round takes a half upwards
Percentage(completed, total) ==
    IF total = 0 THEN NotANumber
    ELSE (2 * 10000 * completed + total) \div (2 * total)

CompletedChapters(studentId, courseId) ==
    Cardinality({ch \in ChaptersOf(courseId) : JoinedCompleted(studentId, ch.id)})

\* the reset's DELETE matching no row (course_id compared with the wrong column)
DeleteProgressOf_Nothing(studentId, courseId) == progress

\* the reset's DELETE without "AND course_id = $2"
DeleteProgressOf_AllCourses(studentId, courseId) ==
    {r \in progress : r.student_id # studentId}

\* the reset's DELETE without "student_id = $1"
DeleteProgressOf_AllStudents(studentId, courseId) ==
    {r \in progress : r.course_id # courseId}

\* DELETE FROM progress WHERE student_id = $1 AND course_id = $2
DeleteProgressOf(studentId, courseId) ==
    {r \in progress : ~(r.student_id = studentId /\ r.course_id = courseId)}

\* the CASE expression without "AND prev_p.student_id = $2"
IsUnlocked_AnyStudent(studentId, ch) ==
    \/ ch.sequence_order = 1
    \/ \E prev_p \in progress : \E prev_ch \in chapters :
          /\ prev_p.chapter_id = prev_ch.id
          /\ prev_ch.course_id = ch.course_id
          /\ prev_ch.sequence_order = ch.sequence_order - 1
          /\ prev_p.completed

\* the answers the gate of completeChapter and of getChapterById can give for a
\* chapter: unlocked when sequence_order is not above 1, locked when the lookup
\* finds no row, else whatever p.completed of rows[0] says
SequentialAccess(studentId, ch) ==
    IF ch.sequence_order > 1
    THEN LET rows == PreviousChapterCheck(studentId, ch.course_id,
                                          ch.sequence_order - 1)
         IN IF rows = {} THEN {FALSE} ELSE rows
    ELSE {TRUE}

\* the CASE expression of getChapters and getCourseProgress
IsUnlocked(studentId, ch) ==
    \/ ch.sequence_order = 1
    \/ \E prev_p \in progress : \E prev_ch \in chapters :
          /\ prev_p.chapter_id = prev_ch.id
          /\ prev_ch.course_id = ch.course_id
          /\ prev_ch.sequence_order = ch.sequence_order - 1
          /\ prev_p.student_id = studentId
          /\ prev_p.completed

RECURSIVE MaxOrder(_)
MaxOrder(rows) ==
    IF rows = {} THEN 0
    ELSE LET r == CHOOSE x \in rows : TRUE
             m == MaxOrder(rows \ {r})
         IN IF r.sequence_order > m THEN r.sequence_order ELSE m

\* the MAX taken without "WHERE course_id = $1"
NextSequence_AllCourses(courseId) == MaxOrder(chapters) + 1

\* SELECT COALESCE(MAX(sequence_order), 0) + 1
NextSequence(courseId) == MaxOrder(ChaptersOf(courseId)) + 1

\* the renumbering without "course_id = $1"
Reorder_AllCourses(courseId, deletedSequence) ==
    {IF ch.sequence_order > deletedSequence
     THEN [ch EXCEPT !.sequence_order = @ - 1] ELSE ch : ch \in chapters}

\* the renumbering with the comparison turned round
Reorder_Below(courseId, deletedSequence) ==
    {IF ch.course_id = courseId /\ ch.sequence_order < deletedSequence
     THEN [ch EXCEPT !.sequence_order = @ - 1] ELSE ch : ch \in chapters}

\* UPDATE chapters SET sequence_order = sequence_order - 1
\*  WHERE course_id = $1 AND sequence_order > $2
Reorder(courseId, deletedSequence) ==
    {IF ch.course_id = courseId /\ ch.sequence_order > deletedSequence
     THEN [ch EXCEPT !.sequence_order = @ - 1] ELSE ch : ch \in chapters}

\* progress.chapter_id references chapters(id): rows of a deleted chapter go with it
CascadeProgress(chapterId) == {r \in progress : r.chapter_id # chapterId}

\* progress.chapter_id references chapters(id): a row needs its chapter
ChapterExists(chapterId) == ChapterRows(chapterId) # {}

\* ------------------------------------------- derived state (spec 4.1)
\* the state of (student, chapter id) in the per-chapter state machine
ChapterState(studentId, chapterId) ==
    IF ChapterRows(chapterId) = {} THEN "absent"
    ELSE LET ch == CHOOSE x \in ChapterRows(chapterId) : TRUE IN
         IF \E r \in ProgressRows(studentId, chapterId) : r.completed THEN "completed"
         ELSE IF ch.sequence_order > 1
                 /\ ~ \E pch \in chapters : \E r \in progress :
                        /\ pch.course_id = ch.course_id
                        /\ pch.sequence_order = ch.sequence_order - 1
                        /\ r.chapter_id = pch.id /\ r.student_id = studentId
                        /\ r.completed
              THEN "locked"
              ELSE "unlocked-incomplete"

\* ---------------------------------------------------------------- Init
InitAssignments ==
    {[id |-> 1, course_id |-> "c1", student_id |-> "s1"],
     [id |-> 2, course_id |-> "c2", student_id |-> "s1"],
     [id |-> 3, course_id |-> "c1", student_id |-> "s2"]}

Init ==
    /\ chapters = {}
    /\ progress = {}
    /\ course_assignments = InitAssignments
    /\ certificates = {}
    /\ nextId = 1
    /\ pc = [p \in Procs |-> "idle"]
    /\ req = [p \in Procs |-> NoReq]
    /\ res = [p \in Procs |-> NoRes]

\* a handler ends: the response is sent
Done(p, r) ==
    /\ pc' = [pc EXCEPT ![p] = "done"]
    /\ res' = [res EXCEPT ![p] = r]

Goto(p, label) ==
    /\ pc' = [pc EXCEPT ![p] = label]
    /\ res' = [res EXCEPT ![p] = NoRes]

\* ------------------------------------------------------ completeChapter
\* another completeChapter of the same student and chapter is in flight
Completing(p, studentId, chapterId) ==
    \E q \in Procs \ {p} :
        /\ pc[q] \in {"cc_enrollment", "cc_previous", "cc_existing", "cc_upsert",
                      "cc_completion"}
        /\ req[q].user = studentId
        /\ req[q].chapter = chapterId

\* SELECT id, course_id, sequence_order FROM chapters WHERE id = $1
CompleteChapter_Start(p, studentId, chapterId) ==
    /\ CanStart(p)
    /\ UNCHANGED <<tables, nextId>>
    /\ IF ChapterRows(chapterId) = {}
       THEN /\ req' = [req EXCEPT ![p] = [NoReq EXCEPT !.op = "completeChapter",
                          !.user = studentId, !.chapter = chapterId,
                          !.pre = ChapterState(studentId, chapterId)]]
            /\ Done(p, Reply(404, "Chapter not found"))
       ELSE \E chapter \in ChapterRows(chapterId) :
            /\ req' = [req EXCEPT ![p] = [NoReq EXCEPT !.op = "completeChapter",
                          !.user = studentId, !.chapter = chapterId,
                          !.course = chapter.course_id, !.ord = chapter.sequence_order,
                          !.pre = ChapterState(studentId, chapterId),
                          !.after = After(p, studentId, chapter.course_id, chapterId),
                          !.overlap = Completing(p, studentId, chapterId)]]
            /\ Goto(p, "cc_enrollment")

\* SELECT id FROM course_assignments WHERE course_id = $1 AND student_id = $2
CompleteChapter_Enrollment(p) ==
    /\ pc[p] = "cc_enrollment"
    /\ UNCHANGED <<tables, nextId, req>>
    /\ IF ~Enrolled(req[p].course, req[p].user)
       THEN Done(p, Reply(403, "You are not enrolled in this course"))
       ELSE IF req[p].ord > 1 THEN Goto(p, "cc_previous") ELSE Goto(p, "cc_existing")

\* the predecessor lookup; rows[0] is whichever row the store returns first
CompleteChapter_Previous(p) ==
    /\ pc[p] = "cc_previous"
    /\ UNCHANGED <<tables, nextId, req>>
    /\ LET rows == PreviousChapterCheck(req[p].user, req[p].course, req[p].ord - 1) IN
       IF rows = {}
       THEN Done(p, Reply(403, "You must complete the previous chapter first"))
       ELSE \E row0 \in rows :
            IF ~row0
            THEN Done(p, Reply(403, "You must complete the previous chapter first"))
            ELSE Goto(p, "cc_existing")

\* SELECT id, completed FROM progress WHERE chapter_id = $1 AND student_id = $2
CompleteChapter_Existing(p) ==
    /\ pc[p] = "cc_existing"
    /\ UNCHANGED <<tables, nextId, req>>
    /\ IF ExistingCompleted(req[p].user, req[p].chapter)
       THEN Done(p, Reply(400, "Chapter already completed"))
       ELSE Goto(p, "cc_upsert")

\* the upsert; the store rejects a row whose chapter is gone and the handler's
\* catch answers 500
CompleteChapter_Upsert(p) ==
    /\ pc[p] = "cc_upsert"
    /\ UNCHANGED <<chapters, course_assignments, certificates, nextId, req>>
    /\ IF ChapterExists(req[p].chapter)
       THEN /\ progress' = UpsertProgress(req[p].user, req[p].chapter, req[p].course)
            /\ Goto(p, "cc_completion")
       ELSE /\ UNCHANGED progress
            /\ Done(p, Reply(500, "Failed to complete chapter"))

\* the completion aggregate and the 200 response
CompleteChapter_Completion(p) ==
    /\ pc[p] = "cc_completion"
    /\ UNCHANGED <<tables, nextId, req>>
    /\ Done(p, [Reply(200, "-") EXCEPT
                  !.total = TotalChapters(req[p].course),
                  !.completed = CompletedChapters(req[p].user, req[p].course),
                  !.percentage = Percentage(CompletedChapters(req[p].user, req[p].course),
                                            TotalChapters(req[p].course))])

\* -------------------------------------------------------- resetProgress
ResetProgress_Start(p, studentId, courseId) ==
    /\ CanStart(p)
    /\ UNCHANGED <<tables, nextId>>
    /\ req' = [req EXCEPT ![p] = [NoReq EXCEPT !.op = "resetProgress",
                  !.user = studentId, !.course = courseId,
                  !.pre = IF \E r \in progress : r.student_id = studentId
                                                     /\ r.course_id = courseId
                          THEN "progress" ELSE "no progress",
                  !.after = After(p, studentId, courseId, NoChapter)]]
    /\ IF ~Enrolled(courseId, studentId)
       THEN Done(p, Reply(403, "You are not enrolled in this course"))
       ELSE Goto(p, "rp_delete")

ResetProgress_Delete(p) ==
    /\ pc[p] = "rp_delete"
    /\ progress' = DeleteProgressOf(req[p].user, req[p].course)
    /\ UNCHANGED <<chapters, course_assignments, certificates, nextId, req>>
    /\ Done(p, Reply(200, "-"))

\* -------------------------------------------------------- createChapter
\* the request bodies: one that passes validation, and one per validation failure
Bodies == {"valid", "no title", "bad image_url", "bad video_url"}

CreateChapter_Start(p, mentorId, courseId, body) ==
    /\ CanStart(p)
    /\ UNCHANGED <<tables, nextId>>
    /\ req' = [req EXCEPT ![p] = [NoReq EXCEPT !.op = "createChapter",
                  !.user = mentorId, !.course = courseId, !.snap = chapters]]
    /\ IF body = "no title" THEN Done(p, Reply(400, "Title is required"))
       ELSE IF body = "bad image_url" THEN Done(p, Reply(400, "Invalid image URL"))
       ELSE IF body = "bad video_url" THEN Done(p, Reply(400, "Invalid video URL"))
       ELSE IF mentor_id[courseId] # mentorId
       THEN Done(p, Reply(404, "Course not found or unauthorized"))
       ELSE Goto(p, "cr_sequence")

CreateChapter_Sequence(p) ==
    /\ pc[p] = "cr_sequence"
    /\ UNCHANGED <<tables, nextId>>
    /\ req' = [req EXCEPT ![p].ord = NextSequence(req[p].course)]
    /\ Goto(p, "cr_insert")

\* the chapters table accepts a row whatever its sequence_order: the store keeps
\* unique constraints on progress and on course_assignments only
ChapterRowAccepted(courseId, seq) == TRUE

CreateChapter_Insert(p) ==
    /\ pc[p] = "cr_insert"
    /\ ChapterRowAccepted(req[p].course, req[p].ord)
    /\ chapters' = chapters \cup {[id |-> nextId, course_id |-> req[p].course,
                                   sequence_order |-> req[p].ord,
                                   title |-> "title"]}
    /\ nextId' = nextId + 1
    /\ req' = [req EXCEPT ![p].chapter = nextId]
    /\ UNCHANGED <<progress, course_assignments, certificates>>
    /\ Done(p, Reply(201, "-"))

\* -------------------------------------------------------- deleteChapter
DeleteChapter_Start(p, mentorId, courseId, chapterId) ==
    /\ CanStart(p)
    /\ UNCHANGED <<tables, nextId>>
    /\ LET rows == {ch \in ChapterRows(chapterId) :
                      ch.course_id = courseId /\ mentor_id[ch.course_id] = mentorId} IN
       IF rows = {}
       THEN /\ req' = [req EXCEPT ![p] = [NoReq EXCEPT !.op = "deleteChapter",
                          !.user = mentorId, !.course = courseId,
                          !.chapter = chapterId, !.snap = chapters]]
            /\ Done(p, Reply(404, "Chapter not found or unauthorized"))
       ELSE \E row \in rows :
            /\ req' = [req EXCEPT ![p] = [NoReq EXCEPT !.op = "deleteChapter",
                          !.user = mentorId, !.course = courseId,
                          !.chapter = chapterId, !.ord = row.sequence_order,
                          !.snap = chapters]]
            /\ Goto(p, "dc_delete")

\* DELETE FROM chapters WHERE id = $1
DeleteChapter_Delete(p) ==
    /\ pc[p] = "dc_delete"
    /\ chapters' = chapters \ ChapterRows(req[p].chapter)
    /\ progress' = CascadeProgress(req[p].chapter)
    /\ UNCHANGED <<course_assignments, certificates, nextId, req>>
    /\ Goto(p, "dc_reorder")

DeleteChapter_Reorder(p) ==
    /\ pc[p] = "dc_reorder"
    /\ chapters' = Reorder(req[p].course, req[p].ord)
    /\ UNCHANGED <<progress, course_assignments, certificates, nextId, req>>
    /\ Done(p, Reply(200, "-"))

\* ---------------------------------------------------- getCourseProgress
\* the SQL NULL
SqlNull == -3

\* ROUND(completed::NUMERIC / NULLIF(total, 0) * 100, 2), in hundredths of a
\* percent: NULLIF turns a zero count into NULL, and so the quotient and ROUND
CompletionPercentage(completed, total) ==
    IF total = 0 THEN SqlNull
    ELSE (2 * 10000 * completed + total) \div (2 * total)

\* one json_build_object of the chapters array
ChapterEntry(studentId, ch) ==
    [chapter_id |-> ch.id, sequence_order |-> ch.sequence_order,
     title |-> ch.title,
     completed |-> JoinedCompleted(studentId, ch.id),
     is_unlocked |-> IsUnlocked(studentId, ch)]

\* courses LEFT JOIN chapters: a course without chapters yields one row of NULLs
NullEntry ==
    [chapter_id |-> NoChapter, sequence_order |-> 0, title |-> "-",
     completed |-> FALSE, is_unlocked |-> FALSE]

CourseProgressChapters(studentId, courseId) ==
    IF ChaptersOf(courseId) = {} THEN {NullEntry}
    ELSE {ChapterEntry(studentId, ch) : ch \in ChaptersOf(courseId)}

\* a deleteChapter of the course has deleted its row and not yet renumbered
DeleteInProgress(courseId) ==
    \E q \in Procs : pc[q] = "dc_reorder" /\ req[q].course = courseId

GetCourseProgress_Start(p, studentId, courseId) ==
    /\ CanStart(p)
    /\ UNCHANGED <<tables, nextId>>
    /\ req' = [req EXCEPT ![p] = [NoReq EXCEPT !.op = "getCourseProgress",
                  !.user = studentId, !.course = courseId,
                  !.after = After(p, studentId, courseId, NoChapter)]]
    /\ IF ~Enrolled(courseId, studentId)
       THEN Done(p, Reply(403, "You are not enrolled in this course"))
       ELSE Goto(p, "gp_query")

GetCourseProgress_Query(p) ==
    /\ pc[p] = "gp_query"
    /\ UNCHANGED <<tables, nextId>>
    /\ req' = [req EXCEPT ![p].during = DeleteInProgress(req[p].course)]
    /\ Done(p, [Reply(200, "-") EXCEPT
                  !.total = TotalChapters(req[p].course),
                  !.completed = CompletedChapters(req[p].user, req[p].course),
                  !.percentage = CompletionPercentage(
                                    CompletedChapters(req[p].user, req[p].course),
                                    TotalChapters(req[p].course)),
                  !.chapters = CourseProgressChapters(req[p].user, req[p].course)])

\* -------------------------------------------------------- getMyProgress
\* the request without ?courseId
NoCourse == "-"

\* one row of the GROUP BY c.id of the courses the student is assigned to
CourseSummary(studentId, courseId) ==
    [course_id |-> courseId,
     total |-> TotalChapters(courseId),
     completed |-> CompletedChapters(studentId, courseId),
     percentage |-> CompletionPercentage(CompletedChapters(studentId, courseId),
                                         TotalChapters(courseId))]

\* a single statement: the row of the course, or the rows of every course
GetMyProgress(p, studentId, courseId) ==
    /\ CanStart(p)
    /\ UNCHANGED <<tables, nextId>>
    /\ req' = [req EXCEPT ![p] = [NoReq EXCEPT !.op = "getMyProgress",
                  !.user = studentId, !.course = courseId]]
    /\ IF courseId = NoCourse
       THEN Done(p, [Reply(200, "-") EXCEPT
                        !.courses = {CourseSummary(studentId, c) :
                                        c \in {x \in Courses : Enrolled(x, studentId)}}])
       ELSE IF ~Enrolled(courseId, studentId)
       THEN Done(p, Reply(404, "Course not found or not enrolled"))
       ELSE Done(p, [Reply(200, "-") EXCEPT
                        !.total = CourseSummary(studentId, courseId).total,
                        !.completed = CourseSummary(studentId, courseId).completed,
                        !.percentage = CourseSummary(studentId, courseId).percentage,
                        !.chapters = CourseProgressChapters(studentId, courseId)])

\* ---------------------------------------------------------- getChapters
\* the student's rows: ch.*, p.completed (NULL read as false), is_unlocked
StudentChapters(studentId, courseId) ==
    {ChapterEntry(studentId, ch) : ch \in ChaptersOf(courseId)}

\* the mentor's rows: ch.* only
MentorChapters(courseId) ==
    {[chapter_id |-> ch.id, sequence_order |-> ch.sequence_order,
      title |-> ch.title,
      completed |-> FALSE, is_unlocked |-> FALSE] : ch \in ChaptersOf(courseId)}

GetChapters_Start(p, userId, courseId) ==
    /\ CanStart(p)
    /\ UNCHANGED <<tables, nextId>>
    /\ req' = [req EXCEPT ![p] = [NoReq EXCEPT !.op = "getChapters",
                  !.user = userId, !.course = courseId]]
    /\ IF userId \in Students
       THEN IF ~Enrolled(courseId, userId)
            THEN Done(p, Reply(403, "You are not enrolled in this course"))
            ELSE Goto(p, "gc_student")
       ELSE IF mentor_id[courseId] # userId
            THEN Done(p, Reply(403, "Unauthorized access to course"))
            ELSE Goto(p, "gc_mentor")

GetChapters_Student(p) ==
    /\ pc[p] = "gc_student"
    /\ UNCHANGED <<tables, nextId>>
    /\ req' = [req EXCEPT ![p].during = DeleteInProgress(req[p].course)]
    /\ Done(p, [Reply(200, "-") EXCEPT
                  !.chapters = StudentChapters(req[p].user, req[p].course)])

GetChapters_Mentor(p) ==
    /\ pc[p] = "gc_mentor"
    /\ UNCHANGED <<tables, nextId>>
    /\ req' = [req EXCEPT ![p].during = DeleteInProgress(req[p].course)]
    /\ Done(p, [Reply(200, "-") EXCEPT !.chapters = MentorChapters(req[p].course)])

\* ------------------------------------------------------- getChapterById
\* SELECT * FROM chapters WHERE id = $1 AND course_id = $2
ChapterOfCourse(chapterId, courseId) ==
    {ch \in ChapterRows(chapterId) : ch.course_id = courseId}

GetChapterById_Start(p, userId, courseId, chapterId) ==
    /\ CanStart(p)
    /\ UNCHANGED <<tables, nextId>>
    /\ IF ChapterOfCourse(chapterId, courseId) = {}
       THEN /\ req' = [req EXCEPT ![p] = [NoReq EXCEPT !.op = "getChapterById",
                          !.user = userId, !.course = courseId, !.chapter = chapterId]]
            /\ Done(p, Reply(404, "Chapter not found"))
       ELSE \E chapter \in ChapterOfCourse(chapterId, courseId) :
            /\ req' = [req EXCEPT ![p] = [NoReq EXCEPT !.op = "getChapterById",
                          !.user = userId, !.course = courseId, !.chapter = chapterId,
                          !.ord = chapter.sequence_order, !.body = chapter.title]]
            /\ Goto(p, IF userId \in Students THEN "gb_enrollment" ELSE "gb_course")

GetChapterById_Enrollment(p) ==
    /\ pc[p] = "gb_enrollment"
    /\ UNCHANGED <<tables, nextId, req>>
    /\ IF ~Enrolled(req[p].course, req[p].user)
       THEN Done(p, Reply(403, "You are not enrolled in this course"))
       ELSE IF req[p].ord > 1 THEN Goto(p, "gb_previous") ELSE Goto(p, "gb_progress")

\* the predecessor lookup; rows[0] is whichever row the store returns first
GetChapterById_Previous(p) ==
    /\ pc[p] = "gb_previous"
    /\ UNCHANGED <<tables, nextId, req>>
    /\ LET rows == PreviousChapterCheck(req[p].user, req[p].course, req[p].ord - 1) IN
       IF rows = {}
       THEN Done(p, [Reply(403, "Chapter locked") EXCEPT
                        !.message = "You must complete the previous chapter first"])
       ELSE \E row0 \in rows :
            IF ~row0
            THEN Done(p, [Reply(403, "Chapter locked") EXCEPT
                             !.message = "You must complete the previous chapter first"])
            ELSE Goto(p, "gb_progress")

\* the progress lookup and the response: the chapter row read by the first query
GetChapterById_Progress(p) ==
    /\ pc[p] = "gb_progress"
    /\ UNCHANGED <<tables, nextId, req>>
    /\ Done(p, [Reply(200, "-") EXCEPT
                  !.chapter = [chapter_id |-> req[p].chapter, title |-> req[p].body]])

GetChapterById_Course(p) ==
    /\ pc[p] = "gb_course"
    /\ UNCHANGED <<tables, nextId, req>>
    /\ IF mentor_id[req[p].course] # req[p].user
       THEN Done(p, Reply(403, "Unauthorized access to course"))
       ELSE Done(p, [Reply(200, "-") EXCEPT
                        !.chapter = [chapter_id |-> req[p].chapter, title |-> req[p].body]])

StepGetChapterById(p) ==
    \/ GetChapterById_Enrollment(p)
    \/ GetChapterById_Previous(p)
    \/ GetChapterById_Progress(p)
    \/ GetChapterById_Course(p)

\* -------------------------------------------------------- updateChapter
\* the request bodies: a new title, no field at all, and one per validation failure
UpdateBodies == {"new title", "empty", "bad image_url", "bad video_url"}

UpdateChapter_Start(p, mentorId, courseId, chapterId, body) ==
    /\ CanStart(p)
    /\ UNCHANGED <<tables, nextId>>
    /\ req' = [req EXCEPT ![p] = [NoReq EXCEPT !.op = "updateChapter",
                  !.user = mentorId, !.course = courseId, !.chapter = chapterId,
                  !.body = body, !.snap = chapters]]
    /\ IF body = "bad image_url" THEN Done(p, Reply(400, "Invalid image URL"))
       ELSE IF body = "bad video_url" THEN Done(p, Reply(400, "Invalid video URL"))
       ELSE IF \A ch \in ChapterRows(chapterId) :
                  ch.course_id # courseId \/ mentor_id[ch.course_id] # mentorId
       THEN Done(p, Reply(404, "Chapter not found or unauthorized"))
       ELSE Goto(p, "uc_update")

\* the SET list with sequence_order in it
SetChapter_Resequence(ch, body) ==
    [ch EXCEPT !.title = IF body = "new title" THEN "new title" ELSE @,
               !.sequence_order = 1]

\* SET title = COALESCE($1, title), description = ..., image_url = ..., video_url = ...
SetChapter(ch, body) ==
    [ch EXCEPT !.title = IF body = "new title" THEN "new title" ELSE @]

\* UPDATE chapters SET ... WHERE id = $5
UpdateChapter_Update(p) ==
    /\ pc[p] = "uc_update"
    /\ chapters' = {IF ch.id = req[p].chapter THEN SetChapter(ch, req[p].body) ELSE ch :
                       ch \in chapters}
    /\ UNCHANGED <<progress, course_assignments, certificates, nextId, req>>
    /\ Done(p, Reply(200, "-"))

\* ------------------------------------------- checkCertificateEligibility
NotEnrolled ==
    [eligible |-> FALSE, message |-> "Not enrolled in this course",
     percentage |-> NoPercentage]

\* the result without the "total_chapters === 0" return: NaN < 100 is false
CompletionEligibility_NoEmptyCheck(total, completed) ==
    IF total # 0 /\ 100 * completed < 100 * total
    THEN [eligible |-> FALSE, message |-> "Course not fully completed",
          percentage |-> Percentage(completed, total)]
    ELSE [eligible |-> TRUE, message |-> "-", percentage |-> 10000]

\* the result computed from the counts of the completion query
CompletionEligibility(total, completed) ==
    IF total = 0
    THEN [eligible |-> FALSE, message |-> "Course has no chapters",
          percentage |-> NoPercentage]
    ELSE IF 100 * completed < 100 * total
    THEN [eligible |-> FALSE, message |-> "Course not fully completed",
          percentage |-> Percentage(completed, total)]
    ELSE [eligible |-> TRUE, message |-> "-", percentage |-> 10000]

\* the SELECT with its two parameters the other way round
CertificateRows_Swapped(studentId, courseId) ==
    {c \in certificates : c.student_id = courseId /\ c.course_id = studentId}

\* SELECT * FROM certificates WHERE student_id = $1 AND course_id = $2
CertificateRows(studentId, courseId) ==
    {c \in certificates : c.student_id = studentId /\ c.course_id = courseId}

\* the certificates table accepts a row whatever rows it holds: the store keeps
\* unique constraints on progress and on course_assignments only
CertificateRowAccepted(studentId, courseId) == TRUE

\* the certificate the client was handed by the request it has just been
\* answered, when that was a getCertificate of the same student and course
PreviousCertificate(p, studentId, courseId) ==
    IF After(p, studentId, courseId, NoChapter).op = "getCertificate"
    THEN res[p].certificate ELSE 0

\* -------------------------------------------------------- getCertificate
GetCertificate_Start(p, studentId, courseId) ==
    /\ CanStart(p)
    /\ UNCHANGED <<tables, nextId>>
    /\ req' = [req EXCEPT ![p] = [NoReq EXCEPT !.op = "getCertificate",
                  !.user = studentId, !.course = courseId,
                  !.certs = CertificateRows(studentId, courseId),
                  !.prevCert = PreviousCertificate(p, studentId, courseId)]]
    /\ IF ~Enrolled(courseId, studentId)
       THEN Done(p, [Reply(403, "Certificate not available") EXCEPT
                        !.message = NotEnrolled.message,
                        !.percentage = NotEnrolled.percentage])
       ELSE Goto(p, "gt_completion")

GetCertificate_Completion(p) ==
    /\ pc[p] = "gt_completion"
    /\ UNCHANGED <<tables, nextId, req>>
    /\ LET eligibility == CompletionEligibility(
                              TotalChapters(req[p].course),
                              CompletedChapters(req[p].user, req[p].course))
       IN IF ~eligibility.eligible
          THEN Done(p, [Reply(403, "Certificate not available") EXCEPT
                           !.message = eligibility.message,
                           !.percentage = eligibility.percentage])
          ELSE Goto(p, "gt_select")

\* rows[0] of a SELECT without ORDER BY is any of the rows
GetCertificate_Select(p) ==
    /\ pc[p] = "gt_select"
    /\ UNCHANGED <<tables, nextId>>
    /\ LET rows == CertificateRows(req[p].user, req[p].course)
       IN IF rows = {}
          THEN UNCHANGED req /\ Goto(p, "gt_insert")
          ELSE \E row \in rows :
                  /\ req' = [req EXCEPT ![p].certificate = row.id]
                  /\ Goto(p, "gt_send")

GetCertificate_Insert(p) ==
    /\ pc[p] = "gt_insert"
    /\ CertificateRowAccepted(req[p].user, req[p].course)
    /\ LET id == Cardinality(certificates) + 1
       IN /\ certificates' = certificates \cup
                {[id |-> id, student_id |-> req[p].user, course_id |-> req[p].course]}
          /\ req' = [req EXCEPT ![p].certificate = id]
    /\ UNCHANGED <<chapters, progress, course_assignments, nextId>>
    /\ Goto(p, "gt_send")

\* the details query, the PDF and the response
GetCertificate_Send(p) ==
    /\ pc[p] = "gt_send"
    /\ UNCHANGED <<tables, nextId, req>>
    /\ Done(p, [Reply(200, "-") EXCEPT !.certificate = req[p].certificate])

\* ------------------------------------------------- checkCertificateStatus
CheckCertificateStatus_Start(p, studentId, courseId) ==
    /\ CanStart(p)
    /\ UNCHANGED <<tables, nextId>>
    /\ IF ~Enrolled(courseId, studentId)
       THEN /\ req' = [req EXCEPT ![p] = [NoReq EXCEPT !.op = "checkCertificateStatus",
                          !.user = studentId, !.course = courseId,
                          !.eligibility = NotEnrolled]]
            /\ Goto(p, "cs_select")
       ELSE /\ req' = [req EXCEPT ![p] = [NoReq EXCEPT !.op = "checkCertificateStatus",
                          !.user = studentId, !.course = courseId]]
            /\ Goto(p, "cs_completion")

CheckCertificateStatus_Completion(p) ==
    /\ pc[p] = "cs_completion"
    /\ UNCHANGED <<tables, nextId>>
    /\ req' = [req EXCEPT ![p].eligibility =
                  CompletionEligibility(TotalChapters(req[p].course),
                                        CompletedChapters(req[p].user, req[p].course))]
    /\ Goto(p, "cs_select")

CheckCertificateStatus_Select(p) ==
    /\ pc[p] = "cs_select"
    /\ UNCHANGED <<tables, nextId, req>>
    /\ LET rows == CertificateRows(req[p].user, req[p].course)
           reply == [Reply(200, "-") EXCEPT
                        !.eligible = req[p].eligibility.eligible,
                        !.percentage = req[p].eligibility.percentage,
                        !.message = req[p].eligibility.message,
                        !.has_certificate = rows # {}]
       IN IF rows = {}
          THEN Done(p, reply)
          ELSE \E row \in rows : Done(p, [reply EXCEPT !.certificate = row.id])

StartCertificate(p, students) ==
    \/ \E st \in students, c \in Courses : GetCertificate_Start(p, st, c)
    \/ \E st \in students, c \in Courses : CheckCertificateStatus_Start(p, st, c)

StepCertificate(p) ==
    \/ GetCertificate_Completion(p)
    \/ GetCertificate_Select(p)
    \/ GetCertificate_Insert(p)
    \/ GetCertificate_Send(p)
    \/ CheckCertificateStatus_Completion(p)
    \/ CheckCertificateStatus_Select(p)

\* ---------------------------------------------------------- assignCourse
\* the student_ids lists of up to MaxStudentIds ids, the empty list included
StudentIdLists(ids) == UNION {[1..n -> ids] : n \in 0..MaxStudentIds}

\* the user lookup without "AND role = $2"
StudentCheck_AnyRole(userId) == userId \in Students \cup Mentors

\* SELECT id FROM users WHERE id = $1 AND role = 'student'
StudentCheck(userId) == userId \in Students

\* what the statements of the request's transaction see: the committed rows
\* and the rows the transaction has inserted itself
VisibleAssignments(p) == course_assignments \cup req[p].pending

\* requests whose transaction is open
InTransaction ==
    {q \in Procs : pc[q] \in {"as_student", "as_existing", "as_insert", "as_commit"}}

\* the unique constraint on (course_id, student_id): a row whose pair is
\* committed already is rejected
AssignmentRowAccepted(row) ==
    \A ca \in course_assignments :
        ca.course_id # row.course_id \/ ca.student_id # row.student_id

\* the id the store gives the next course_assignments row: one that no row of
\* the table and of the open transactions has
NextAssignmentId ==
    LET used == {r.id : r \in course_assignments \cup
                             UNION {req[q].pending : q \in InTransaction}}
    IN CHOOSE n \in 1..(Cardinality(used) + 1) :
          n \notin used /\ \A k \in 1..(n - 1) : k \in used

\* the committed table after a transaction that kept its rows although it failed
RolledBack_Kept(p) == course_assignments \cup req[p].pending

\* the committed table after ROLLBACK
RolledBack(p) == course_assignments

\* the committed table after COMMIT
Committed(p) == course_assignments \cup req[p].pending

\* the loop moves to the next id, or leaves the loop for COMMIT
NextStudent(p) == IF req[p].index + 1 > Len(req[p].student_ids)
                  THEN "as_commit" ELSE "as_student"

AssignCourse_Start(p, mentorId, courseId, ids) ==
    /\ CanStart(p)
    /\ UNCHANGED <<tables, nextId>>
    /\ req' = [req EXCEPT ![p] = [NoReq EXCEPT !.op = "assignCourse",
                  !.user = mentorId, !.course = courseId, !.student_ids = ids,
                  !.snap = course_assignments]]
    /\ IF ids = <<>>
       THEN Done(p, Reply(400, "student_ids must be a non-empty array"))
       ELSE IF mentor_id[courseId] # mentorId
       THEN Done(p, Reply(404, "Course not found or unauthorized"))
       ELSE Goto(p, "as_begin")

\* getClient and BEGIN
AssignCourse_Begin(p) ==
    /\ pc[p] = "as_begin"
    /\ UNCHANGED <<tables, nextId>>
    /\ req' = [req EXCEPT ![p].index = 1]
    /\ Goto(p, "as_student")

AssignCourse_Student(p) ==
    /\ pc[p] = "as_student"
    /\ UNCHANGED <<tables, nextId>>
    /\ LET studentId == req[p].student_ids[req[p].index]
       IN IF ~StudentCheck(studentId)
          THEN /\ req' = [req EXCEPT
                            ![p].errors = Append(@, [student_id |-> studentId,
                                                     error |-> "Student not found"]),
                            ![p].index = @ + 1]
               /\ Goto(p, NextStudent(p))
          ELSE UNCHANGED req /\ Goto(p, "as_existing")

AssignCourse_Existing(p) ==
    /\ pc[p] = "as_existing"
    /\ UNCHANGED <<tables, nextId>>
    /\ LET studentId == req[p].student_ids[req[p].index]
       IN IF \E ca \in VisibleAssignments(p) :
                 ca.course_id = req[p].course /\ ca.student_id = studentId
          THEN /\ req' = [req EXCEPT
                            ![p].errors = Append(@, [student_id |-> studentId,
                                                     error |-> "Already assigned"]),
                            ![p].index = @ + 1]
               /\ Goto(p, NextStudent(p))
          ELSE UNCHANGED req /\ Goto(p, "as_insert")

\* the INSERT waits while another open transaction holds the same key; a key
\* that is committed makes it fail, and the handler rolls back
AssignCourse_Insert(p) ==
    /\ pc[p] = "as_insert"
    /\ UNCHANGED nextId
    /\ LET row == [id |-> NextAssignmentId, course_id |-> req[p].course,
                   student_id |-> req[p].student_ids[req[p].index]]
       IN /\ \A q \in InTransaction \ {p} : \A x \in req[q].pending :
                x.course_id # row.course_id \/ x.student_id # row.student_id
          /\ IF AssignmentRowAccepted(row)
             THEN /\ req' = [req EXCEPT ![p].pending = @ \cup {row},
                                        ![p].assignments = Append(@, row),
                                        ![p].index = @ + 1]
                  /\ UNCHANGED tables
                  /\ Goto(p, NextStudent(p))
             ELSE /\ UNCHANGED req
                  /\ course_assignments' = RolledBack(p)
                  /\ UNCHANGED <<chapters, progress, certificates>>
                  /\ Done(p, Reply(500, "Failed to assign course"))

AssignCourse_Commit(p) ==
    /\ pc[p] = "as_commit"
    /\ course_assignments' = Committed(p)
    /\ UNCHANGED <<chapters, progress, certificates, nextId, req>>
    /\ Done(p, [Reply(200, "-") EXCEPT !.assignments = req[p].assignments,
                                       !.errors = req[p].errors])

\* a store call of the transaction (COMMIT included) fails: ROLLBACK, then 500
AssignCourse_Catch(p) ==
    /\ pc[p] \in {"as_begin"} \cup {"as_student", "as_existing", "as_insert", "as_commit"}
    /\ course_assignments' = RolledBack(p)
    /\ UNCHANGED <<chapters, progress, certificates, nextId, req>>
    /\ Done(p, Reply(500, "Failed to assign course"))

StepAssign(p) ==
    \/ AssignCourse_Begin(p)
    \/ AssignCourse_Student(p)
    \/ AssignCourse_Existing(p)
    \/ AssignCourse_Insert(p)
    \/ AssignCourse_Commit(p)
    \/ AssignCourse_Catch(p)

\* ------------------------------------------------------- specification
\* the client has read the response; the slot is free again
Finish(p) ==
    /\ pc[p] = "done"
    /\ pc' = [pc EXCEPT ![p] = "idle"]
    /\ req' = [req EXCEPT ![p] = NoReq]
    /\ res' = [res EXCEPT ![p] = NoRes]
    /\ UNCHANGED <<tables, nextId>>

\* createChapter requests in flight
Creating == {q \in Procs : pc[q] \in {"cr_sequence", "cr_insert"}}

\* a request arrives: any of the students and mentors, on up to cap chapter ids
Start(p, students, mentors, cap) ==
    \/ \E s \in students, ch \in 1..cap : CompleteChapter_Start(p, s, ch)
    \/ \E s \in students, c \in Courses : ResetProgress_Start(p, s, c)
    \/ \E m \in mentors, c \in Courses, b \in Bodies :
          /\ nextId + Cardinality(Creating) <= cap
          /\ CreateChapter_Start(p, m, c, b)
    \/ \E m \in mentors, c \in Courses, ch \in 1..cap : DeleteChapter_Start(p, m, c, ch)
    \/ \E s \in students, c \in Courses : GetCourseProgress_Start(p, s, c)
    \/ \E u \in students \cup mentors, c \in Courses : GetChapters_Start(p, u, c)

Step(p) ==
    \/ CompleteChapter_Enrollment(p)
    \/ CompleteChapter_Previous(p)
    \/ CompleteChapter_Existing(p)
    \/ CompleteChapter_Upsert(p)
    \/ CompleteChapter_Completion(p)
    \/ ResetProgress_Delete(p)
    \/ CreateChapter_Sequence(p)
    \/ CreateChapter_Insert(p)
    \/ DeleteChapter_Delete(p)
    \/ DeleteChapter_Reorder(p)
    \/ GetCourseProgress_Query(p)
    \/ GetChapters_Student(p)
    \/ GetChapters_Mentor(p)

\* the users whose requests run concurrently
ConcStudents == {"s1"}
ConcMentors == {"m1"}

\* independent clients: their requests interleave statement by statement
Next ==
    \E p \in Procs :
        \/ pc[p] = "idle" /\ Start(p, ConcStudents, ConcMentors, ConcChapters)
        \/ Step(p)
        \/ Finish(p)

Spec == Init /\ [][Next]_vars

\* one client after the other: a request starts when the previous one is answered
NextSeq ==
    \/ Start(SeqProc, Students, Mentors, MaxChapters)
    \/ Step(SeqProc)

SpecSeq == Init /\ [][NextSeq]_vars

\* ----------------------------------------------------- a failing store
\* a statement of deleteChapter is rejected by the store: the handler's catch
\* logs the error and answers 500; nothing the handler has done is undone
DeleteChapter_Catch(p) ==
    /\ pc[p] \in {"dc_delete", "dc_reorder"}
    /\ UNCHANGED <<tables, nextId, req>>
    /\ Done(p, Reply(500, "Failed to delete chapter"))

\* one client after the other, with a store that can fail a statement
NextFail ==
    \/ Start(SeqProc, Students, Mentors, MaxChapters)
    \/ Step(SeqProc)
    \/ DeleteChapter_Catch(SeqProc)

SpecFail == Init /\ [][NextFail]_vars

\* ----------------------------------------------------- editing chapters
\* one client after the other: a mentor builds the courses, a student completes
\* chapters, and every mentor edits chapters
NextUpd ==
    \/ \E m \in ConcMentors, c \in Courses :
          /\ nextId <= MaxChapters
          /\ CreateChapter_Start(SeqProc, m, c, "valid")
    \/ CreateChapter_Sequence(SeqProc)
    \/ CreateChapter_Insert(SeqProc)
    \/ \E st \in ConcStudents, ch \in 1..MaxChapters :
          CompleteChapter_Start(SeqProc, st, ch)
    \/ CompleteChapter_Enrollment(SeqProc)
    \/ CompleteChapter_Previous(SeqProc)
    \/ CompleteChapter_Existing(SeqProc)
    \/ CompleteChapter_Upsert(SeqProc)
    \/ CompleteChapter_Completion(SeqProc)
    \/ \E m \in Mentors, c \in Courses, ch \in 1..MaxChapters, b \in UpdateBodies :
          UpdateChapter_Start(SeqProc, m, c, ch, b)
    \/ UpdateChapter_Update(SeqProc)

SpecUpd == Init /\ [][NextUpd]_vars

\* -------------------------------------------------------- certificates
\* one client after the other, with the certificate requests of every student
NextCert ==
    \/ Start(SeqProc, ConcStudents, ConcMentors, MaxChapters)
    \/ Step(SeqProc)
    \/ StartCertificate(SeqProc, Students)
    \/ StepCertificate(SeqProc)
    \/ \E st \in Students, c \in Courses \cup {NoCourse} : GetMyProgress(SeqProc, st, c)

SpecCert == Init /\ [][NextCert]_vars

\* one client after the other: mentors add chapters, every student completes
\* chapters and fetches certificates
NextFrame ==
    \/ \E m \in Mentors, c \in Courses :
          /\ nextId <= MaxChapters
          /\ CreateChapter_Start(SeqProc, m, c, "valid")
    \/ \E st \in Students, ch \in 1..MaxChapters : CompleteChapter_Start(SeqProc, st, ch)
    \/ \E st \in Students, c \in Courses : GetCertificate_Start(SeqProc, st, c)
    \/ CreateChapter_Sequence(SeqProc)
    \/ CreateChapter_Insert(SeqProc)
    \/ CompleteChapter_Enrollment(SeqProc)
    \/ CompleteChapter_Previous(SeqProc)
    \/ CompleteChapter_Existing(SeqProc)
    \/ CompleteChapter_Upsert(SeqProc)
    \/ CompleteChapter_Completion(SeqProc)
    \/ GetCertificate_Completion(SeqProc)
    \/ GetCertificate_Select(SeqProc)
    \/ GetCertificate_Insert(SeqProc)
    \/ GetCertificate_Send(SeqProc)

SpecFrame == Init /\ [][NextFrame]_vars

\* independent clients that build a course, complete it and fetch certificates
NextCertConc ==
    \E p \in Procs :
        \/ /\ pc[p] = "idle"
           /\ \/ \E m \in ConcMentors, c \in Courses :
                    /\ nextId + Cardinality(Creating) <= ConcChapters
                    /\ CreateChapter_Start(p, m, c, "valid")
              \/ \E st \in ConcStudents, ch \in 1..ConcChapters :
                    CompleteChapter_Start(p, st, ch)
              \/ \E st \in ConcStudents, c \in Courses : GetCertificate_Start(p, st, c)
        \/ CreateChapter_Sequence(p)
        \/ CreateChapter_Insert(p)
        \/ CompleteChapter_Enrollment(p)
        \/ CompleteChapter_Previous(p)
        \/ CompleteChapter_Existing(p)
        \/ CompleteChapter_Upsert(p)
        \/ CompleteChapter_Completion(p)
        \/ GetCertificate_Completion(p)
        \/ GetCertificate_Select(p)
        \/ GetCertificate_Insert(p)
        \/ GetCertificate_Send(p)
        \/ Finish(p)

SpecCertConc == Init /\ [][NextCertConc]_vars

\* -------------------------------------------------------- enrollment
\* the store before any course is assigned
InitAssign ==
    /\ chapters = {}
    /\ progress = {}
    /\ course_assignments = {}
    /\ certificates = {}
    /\ nextId = 1
    /\ pc = [p \in Procs |-> "idle"]
    /\ req = [p \in Procs |-> NoReq]
    /\ res = [p \in Procs |-> NoRes]

\* one mentor request after the other, with a store that can fail a statement
NextAssign ==
    \/ \E m \in Mentors, c \in Courses, ids \in StudentIdLists(Students \cup ConcMentors) :
          AssignCourse_Start(SeqProc, m, c, ids)
    \/ StepAssign(SeqProc)

SpecAssign == InitAssign /\ [][NextAssign]_vars

\* two assignCourse requests at once
NextAssignConc ==
    \E p \in Procs :
        \/ /\ pc[p] = "idle"
           /\ \E m \in ConcMentors, c \in Courses,
                 ids \in StudentIdLists(ConcStudents \cup ConcMentors) :
                    AssignCourse_Start(p, m, c, ids)
        \/ StepAssign(p)
        \/ Finish(p)

SpecAssignConc == InitAssign /\ [][NextAssignConc]_vars

\* ------------------------------------------------------ chapter reads
\* one client after the other, with the single-chapter read of every user
NextView ==
    \/ Start(SeqProc, ConcStudents, ConcMentors, MaxChapters)
    \/ Step(SeqProc)
    \/ \E u \in Students \cup Mentors, c \in Courses, ch \in 1..MaxChapters :
          GetChapterById_Start(SeqProc, u, c, ch)
    \/ StepGetChapterById(SeqProc)

SpecView == Init /\ [][NextView]_vars

\* ------------------------------------------------- probing for chapters
\* two clients that try chapter ids while mentors add chapters
NextProbe ==
    \E p \in Procs :
        \/ /\ pc[p] = "idle"
           /\ \/ \E m \in Mentors, c \in Courses :
                    /\ nextId + Cardinality(Creating) <= ConcChapters
                    /\ CreateChapter_Start(p, m, c, "valid")
              \/ \E st \in Students, ch \in 1..ConcChapters :
                    CompleteChapter_Start(p, st, ch)
        \/ CreateChapter_Sequence(p)
        \/ CreateChapter_Insert(p)
        \/ CompleteChapter_Enrollment(p)
        \/ CompleteChapter_Previous(p)
        \/ CompleteChapter_Existing(p)
        \/ CompleteChapter_Upsert(p)
        \/ CompleteChapter_Completion(p)
        \/ Finish(p)

SpecProbe == Init /\ [][NextProbe]_vars

\* ---------------------------------------------------- the unlock gates
\* two clients: a mentor's requests that add chapters to a course, and a
\* student's requests that pass one of the four unlock gates
NextGate ==
    \E p \in Procs :
        \/ /\ pc[p] = "idle"
           /\ \/ \E m \in ConcMentors :
                    /\ nextId + Cardinality(Creating) <= MaxChapters
                    /\ CreateChapter_Start(p, m, "c1", "valid")
              \/ \E st \in ConcStudents, ch \in 1..MaxChapters :
                    CompleteChapter_Start(p, st, ch)
              \/ \E st \in ConcStudents, ch \in 1..MaxChapters :
                    GetChapterById_Start(p, st, "c1", ch)
              \/ \E st \in ConcStudents : GetChapters_Start(p, st, "c1")
              \/ \E st \in ConcStudents : GetCourseProgress_Start(p, st, "c1")
        \/ CreateChapter_Sequence(p)
        \/ CreateChapter_Insert(p)
        \/ CompleteChapter_Enrollment(p)
        \/ CompleteChapter_Previous(p)
        \/ CompleteChapter_Existing(p)
        \/ CompleteChapter_Upsert(p)
        \/ CompleteChapter_Completion(p)
        \/ GetChapterById_Enrollment(p)
        \/ GetChapterById_Previous(p)
        \/ GetChapterById_Progress(p)
        \/ GetChapters_Student(p)
        \/ GetCourseProgress_Query(p)
        \/ Finish(p)

SpecGate == Init /\ [][NextGate]_vars

\* ============================================================ properties
IsDone(p, op) == pc[p] = "done" /\ req[p].op = op

Quiet == \A p \in Procs : pc[p] \in {"idle", "done"}

\* the student has a completed=true row for the chapter id
Completed(studentId, chapterId) ==
    \E r \in progress :
        r.student_id = studentId /\ r.chapter_id = chapterId /\ r.completed

\* some chapter of the course with that sequence_order is completed by the student
CompletedAt(studentId, courseId, seq) ==
    \E ch \in chapters :
        /\ ch.course_id = courseId
        /\ ch.sequence_order = seq
        /\ Completed(studentId, ch.id)

\* the Progress rows of a (student, course) pair: the student's rows for the
\* chapters of the course
RowsOf(studentId, courseId) ==
    {r \in progress :
        /\ r.student_id = studentId
        /\ \E ch \in chapters : ch.id = r.chapter_id /\ ch.course_id = courseId}

Orders(courseId) == {ch.sequence_order : ch \in ChaptersOf(courseId)}

\* the values are exactly 1..N for N rows: positive, distinct, no gap
Dense(courseId) == Orders(courseId) = 1..Cardinality(ChaptersOf(courseId))

\* no value between 1 and the largest one is missing
NoGap(orders) == \A k \in 1..MaxChapters : (\E n \in orders : n >= k) => k \in orders

\* ---- C1 (Spec): a completed=true Progress row for a chapter with
\* sequence_order N exists only if N = 1 or the same student has a completed row
\* for the chapter with sequence_order N-1 of the same course.  Stated for every
\* state outside the window between the two statements of a deleteChapter, so
\* that a violation does not rest on that window.
C1_CompletedOnlyAfterPredecessor ==
    (\A p \in Procs : pc[p] # "dc_reorder") =>
        \A r \in progress : \A ch \in ChapterRows(r.chapter_id) :
            r.completed =>
                \/ ch.sequence_order = 1
                \/ CompletedAt(r.student_id, ch.course_id, ch.sequence_order - 1)

\* ---- C2 (Spec): of two completeChapter requests of the same student for the
\* same chapter that run concurrently, at most one answers 200.
C2_AtMostOneCompletionWins ==
    \A p \in Procs : \A q \in Procs \ {p} :
        ~ /\ IsDone(p, "completeChapter") /\ IsDone(q, "completeChapter")
          /\ req[p].user = req[q].user
          /\ req[p].chapter = req[q].chapter
          /\ req[q].overlap
          /\ res[p].status = 200
          /\ res[q].status = 200

\* ---- C3 (SpecSeq): completeChapter by an enrolled student on an unlocked,
\* not-yet-completed chapter answers 200; the same call issued again right after
\* it answers 400 "Chapter already completed"; after either call exactly one
\* Progress row exists for the (student, chapter).
C3_SecondCompleteRejected ==
    \A p \in Procs :
        IsDone(p, "completeChapter") =>
            /\ (req[p].pre = "unlocked-incomplete"
                    /\ Enrolled(req[p].course, req[p].user)) =>
                  /\ res[p].status = 200
                  /\ Cardinality(ProgressRows(req[p].user, req[p].chapter)) = 1
            /\ req[p].after.op = "completeChapter" =>
                  /\ res[p].status = 400
                  /\ res[p].error = "Chapter already completed"
                  /\ Cardinality(ProgressRows(req[p].user, req[p].chapter)) = 1

C3_Witness ==
    \E p \in Procs :
        /\ IsDone(p, "completeChapter")
        /\ req[p].after = [op |-> "completeChapter", pre |-> "unlocked-incomplete"]
        /\ res[p].status = 400

\* ---- C4 (SpecSeq), as claimed: completeChapter on a chapter that is locked for
\* the caller answers 403 with the previous-chapter-first message.
C4_LockedAlwaysPreviousChapterMessage ==
    \A p \in Procs :
        (IsDone(p, "completeChapter") /\ req[p].pre = "locked") =>
            /\ res[p].status = 403
            /\ res[p].error = "You must complete the previous chapter first"

\* ---- C4 (SpecSeq), amended: every statement of a completeChapter on a chapter
\* locked for the caller leaves the four tables unchanged, and the request
\* answers 403: with the previous-chapter-first message when the caller is
\* enrolled in the chapter's course, with the not-enrolled message otherwise.
C4_LockedStep ==
    \A p \in Procs :
        (pc'[p] # pc[p] /\ req'[p].op = "completeChapter" /\ req'[p].pre = "locked") =>
            /\ tables' = tables
            /\ pc'[p] = "done" =>
                  /\ res'[p].status = 403
                  /\ res'[p].error =
                        IF Enrolled(req'[p].course, req'[p].user)
                        THEN "You must complete the previous chapter first"
                        ELSE "You are not enrolled in this course"

C4_LockedForbiddenNoWrite == [][C4_LockedStep]_vars

C4_Witness ==
    \E p \in Procs :
        /\ IsDone(p, "completeChapter")
        /\ req[p].pre = "locked"
        /\ Enrolled(req[p].course, req[p].user)
        /\ res[p].error = "You must complete the previous chapter first"
        /\ \E s \in Students \ {req[p].user} :
              CompletedAt(s, req[p].course, req[p].ord - 1)

\* ---- C5 (SpecSeq): getCourseProgress answers an enrolled student with one
\* entry per chapter of the course, and each entry's is_unlocked is true iff the
\* chapter's sequence_order is 1 or the chapter with sequence_order - 1 of the
\* course has a completed=true row of that student.
C5_IsUnlockedIsDerivedState ==
    \A p \in Procs :
        (IsDone(p, "getCourseProgress") /\ res[p].status = 200) =>
            /\ \A ch \in ChaptersOf(req[p].course) :
                  \E e \in res[p].chapters : e.chapter_id = ch.id
            /\ \A e \in res[p].chapters :
                  e.chapter_id # NoChapter =>
                      /\ \E ch \in ChaptersOf(req[p].course) :
                            ch.id = e.chapter_id /\ ch.sequence_order = e.sequence_order
                      /\ e.is_unlocked <=>
                            \/ e.sequence_order = 1
                            \/ CompletedAt(req[p].user, req[p].course,
                                           e.sequence_order - 1)

C5_Witness ==
    \E p \in Procs :
        /\ IsDone(p, "getCourseProgress")
        /\ \E e \in res[p].chapters : e.sequence_order = 2 /\ e.is_unlocked
        /\ \E e \in res[p].chapters : e.sequence_order = 3 /\ ~e.is_unlocked
        /\ \E s \in Students \ {req[p].user} : CompletedAt(s, req[p].course, 2)

\* ---- C6 (SpecSeq): a getCourseProgress issued right after a successful
\* resetProgress of the same student and course reports completed=false for
\* every chapter, is_unlocked=true for sequence_order 1 and is_unlocked=false for
\* every other chapter.
C6_ResetThenProgressIsInitial ==
    \A p \in Procs :
        (IsDone(p, "getCourseProgress") /\ req[p].after.op = "resetProgress") =>
            /\ res[p].status = 200
            /\ res[p].completed = 0
            /\ \A e \in res[p].chapters :
                  /\ ~e.completed
                  /\ e.is_unlocked <=> (e.sequence_order = 1)

C6_Witness ==
    \E p \in Procs :
        /\ IsDone(p, "getCourseProgress")
        /\ req[p].after = [op |-> "resetProgress", pre |-> "progress"]
        /\ \E e \in res[p].chapters : e.sequence_order = 2

\* ---- C7 (SpecSeq): the DELETE of resetProgress removes exactly the Progress
\* rows of the requesting student for the chapters of the requested course and
\* changes no chapter, enrollment or certificate; no other statement of
\* resetProgress changes a table, and a student who is not enrolled is answered
\* 403.
C7_ResetStep ==
    \A p \in Procs :
        (pc'[p] # pc[p] /\ req'[p].op = "resetProgress") =>
            /\ <<chapters, course_assignments, certificates>>' =
                  <<chapters, course_assignments, certificates>>
            /\ IF pc[p] = "rp_delete"
               THEN /\ progress' = progress \ RowsOf(req[p].user, req[p].course)
                    /\ res'[p].status = 200
               ELSE progress' = progress
            /\ ~Enrolled(req'[p].course, req'[p].user) =>
                  pc'[p] = "done" /\ res'[p].status = 403

C7_ResetDeletesOnlyThePair == [][C7_ResetStep]_vars

C7_Witness ==
    \E p \in Procs :
        /\ IsDone(p, "resetProgress")
        /\ res[p].status = 200
        /\ req[p].pre = "progress"
        /\ \E s \in Students \ {req[p].user} : RowsOf(s, req[p].course) # {}
        /\ \E c \in Courses \ {req[p].course} : RowsOf(req[p].user, c) # {}

\* ---- C8 (SpecSeq): a completed (student, chapter) is still completed after
\* every step that is not the DELETE of a resetProgress of that student and the
\* chapter's course, as long as the chapter itself exists.
ResetStepOf(studentId, courseId) ==
    \E p \in Procs :
        /\ pc[p] = "rp_delete" /\ pc'[p] = "done"
        /\ req[p].user = studentId
        /\ req[p].course = courseId

C8_Step ==
    \A s \in Students : \A ch \in chapters :
        (Completed(s, ch.id)
            /\ (\E x \in chapters' : x.id = ch.id)
            /\ ~ResetStepOf(s, ch.course_id)) =>
                \E r \in progress' :
                    r.student_id = s /\ r.chapter_id = ch.id /\ r.completed

C9_DenseAfterEveryRequest ==
    Quiet => \A c \in Courses : Dense(c)

C9_Witness ==
    \E p \in Procs :
        /\ IsDone(p, "deleteChapter")
        /\ res[p].status = 200
        /\ req[p].ord = 1
        /\ ChaptersOf(req[p].course) # {}
        /\ \E c \in Courses \ {req[p].course} : ChaptersOf(c) # {}

\* ---- C10 (Spec): a read of a course's chapters made while a deleteChapter of
\* that course is between its DELETE and its renumbering sees no gap in the
\* sequence_order values.
C10_ReadSeesNoGap ==
    \A p \in Procs :
        ((IsDone(p, "getChapters") \/ IsDone(p, "getCourseProgress"))
            /\ res[p].status = 200 /\ req[p].during) =>
                NoGap({e.sequence_order : e \in
                          {x \in res[p].chapters : x.chapter_id # NoChapter}})

\* ---- C11 (SpecFail): a deleteChapter that ends with a failure response has
\* not removed its chapter: a delete whose renumbering failed is not durable.
C11_FailedDeleteLeavesChapter ==
    \A p \in Procs :
        (IsDone(p, "deleteChapter") /\ res[p].status = 500) =>
            chapters = req[p].snap

\* ---- C12 (SpecSeq): a successful deleteChapter of the chapter with
\* sequence_order d removes that row, leaves every chapter of the course with a
\* smaller order and every chapter of another course as it was, and lowers by
\* exactly one the order of every chapter of the course with a greater order.
C12_DeleteShiftsLaterChapters ==
    \A p \in Procs :
        (IsDone(p, "deleteChapter") /\ res[p].status = 200) =>
            /\ \A ch \in chapters : ch.id # req[p].chapter
            /\ \A old \in req[p].snap :
                  old.id # req[p].chapter =>
                      \E ch \in chapters :
                          /\ ch.id = old.id
                          /\ ch.course_id = old.course_id
                          /\ ch.sequence_order =
                                IF old.course_id = req[p].course
                                   /\ old.sequence_order > req[p].ord
                                THEN old.sequence_order - 1
                                ELSE old.sequence_order
            /\ Cardinality(chapters) = Cardinality(req[p].snap) - 1

C12_Witness ==
    \E p \in Procs :
        /\ IsDone(p, "deleteChapter")
        /\ res[p].status = 200
        /\ req[p].ord = 2
        /\ Orders(req[p].course) = {1, 2}
        /\ Cardinality(req[p].snap) = 3

C14_CreateAppends ==
    \A p \in Procs :
        IsDone(p, "createChapter") =>
            LET old == {ch \in req[p].snap : ch.course_id = req[p].course}
                new == chapters \ req[p].snap
            IN /\ res[p].status = 201 =>
                     /\ mentor_id[req[p].course] = req[p].user
                     /\ req[p].snap \subseteq chapters
                     /\ Cardinality(new) = 1
                     /\ \A ch \in new :
                           /\ ch.course_id = req[p].course
                           /\ ch.id = req[p].chapter
                           /\ \A x \in req[p].snap : x.id # ch.id
                           /\ \A x \in old : x.sequence_order < ch.sequence_order
                           /\ \/ old = {} /\ ch.sequence_order = 1
                              \/ \E x \in old : ch.sequence_order = x.sequence_order + 1
               /\ res[p].status # 201 => chapters = req[p].snap
               /\ mentor_id[req[p].course] # req[p].user => res[p].status \in {400, 404}
               /\ (mentor_id[req[p].course] = req[p].user /\ res[p].status # 400) =>
                     res[p].status = 201

C14_Witness ==
    \E p \in Procs :
        /\ IsDone(p, "createChapter")
        /\ res[p].status = 201
        /\ \E ch \in chapters : ch.id = req[p].chapter /\ ch.sequence_order = 1
        /\ \E ch \in req[p].snap :
              ch.course_id # req[p].course /\ ch.sequence_order = 2

\* the columns of the chapters table that place a chapter: its course and order
Placement(rows) ==
    {[id |-> ch.id, course_id |-> ch.course_id,
      sequence_order |-> ch.sequence_order] : ch \in rows}

\* ---- C15 (SpecUpd): no step of an updateChapter request, whether the request
\* ends in success or in failure, changes the sequence_order or the course_id
\* of any chapter, adds or removes a chapter, or changes the progress table.
C15_UpdateStep ==
    \A p \in Procs :
        (req'[p].op = "updateChapter"
            /\ <<pc[p], req[p], res[p]>> # <<pc'[p], req'[p], res'[p]>>) =>
                /\ Placement(chapters') = Placement(chapters)
                /\ progress' = progress

C15_UpdateKeepsPlacementAndProgress == [][C15_UpdateStep]_vars

C15_Witness ==
    \E p \in Procs :
        /\ IsDone(p, "updateChapter")
        /\ res[p].status = 200
        /\ chapters # req[p].snap
        /\ \E ch \in chapters :
              /\ ch.id = req[p].chapter
              /\ ch.sequence_order = 2
              /\ ch.title = "new title"
              /\ \E r \in progress : r.chapter_id = ch.id

\* ---- C20 (SpecSeq): a successful completeChapter reports the number of
\* chapters of the course, the number of them the student has completed with
\* the chapter just completed counted in, and as percentage (in hundredths of
\* a percent) the integer nearest to 10000 * completed / total, a half going
\* upwards; the percentage is 10000 exactly when completed = total.
C20_CompletionReport ==
    \A p \in Procs :
        (IsDone(p, "completeChapter") /\ res[p].status = 200) =>
            LET all == ChaptersOf(req[p].course)
                t == res[p].total
                c == res[p].completed
                pct == res[p].percentage
            IN /\ t = Cardinality(all)
               /\ c = Cardinality({ch \in all : Completed(req[p].user, ch.id)})
               /\ \E ch \in all : ch.id = req[p].chapter /\ Completed(req[p].user, ch.id)
               /\ t > 0
               /\ 2 * pct * t <= 2 * 10000 * c + t
               /\ 2 * 10000 * c + t < 2 * pct * t + 2 * t
               /\ (pct = 10000) <=> (c = t)

C20_Witness ==
    \E p \in Procs :
        /\ IsDone(p, "completeChapter")
        /\ res[p].status = 200
        /\ res[p].total = 3
        /\ res[p].completed = 2
        /\ res[p].percentage = 6667

\* the student is enrolled in the course, the course has a chapter, and the
\* student has completed every chapter of the course
FullyCompleted(studentId, courseId) ==
    /\ \E a \in course_assignments :
          a.student_id = studentId /\ a.course_id = courseId
    /\ \E ch \in chapters : ch.course_id = courseId
    /\ \A ch \in chapters : ch.course_id = courseId => Completed(studentId, ch.id)

\* ---- C16 (SpecCert): the eligibility reported by checkCertificateStatus is
\* true exactly when the student is enrolled in the course, the course has at
\* least one chapter and the student has completed every chapter of it; and
\* getCertificate passes its eligibility check exactly in that case.
C16_EligibleIffFullyCompleted ==
    \A p \in Procs :
        /\ IsDone(p, "checkCertificateStatus") =>
              (res[p].eligible <=> FullyCompleted(req[p].user, req[p].course))
        /\ IsDone(p, "getCertificate") =>
              (res[p].status # 403 <=> FullyCompleted(req[p].user, req[p].course))

C16_Witness ==
    \E p \in Procs :
        /\ IsDone(p, "checkCertificateStatus")
        /\ res[p].eligible
        /\ Cardinality(ChaptersOf(req[p].course)) = 2
        /\ \E c \in Courses : ChaptersOf(c) = {}

\* ---- C17 (SpecCert): a getCertificate that finds no certificate of the
\* student and course and succeeds leaves exactly one, the one it returns; a
\* getCertificate issued right after a successful one by the same student for
\* the same course succeeds, returns the same certificate id and creates none.
C17_SecondCallSameCertificate ==
    \A p \in Procs :
        IsDone(p, "getCertificate") =>
            LET rows == {c \in certificates :
                            c.student_id = req[p].user /\ c.course_id = req[p].course}
            IN /\ (res[p].status = 200 /\ req[p].certs = {}) =>
                     /\ Cardinality(rows) = 1
                     /\ \A c \in rows : c.id = res[p].certificate
               /\ req[p].prevCert # 0 =>
                     /\ res[p].status = 200
                     /\ res[p].certificate = req[p].prevCert
                     /\ rows = req[p].certs
                     /\ Cardinality(rows) = 1

C17_Witness ==
    \E p \in Procs :
        /\ IsDone(p, "getCertificate")
        /\ res[p].status = 200
        /\ req[p].prevCert # 0
        /\ res[p].certificate = req[p].prevCert
        /\ Cardinality(certificates) = 1
        /\ Cardinality(ChaptersOf(req[p].course)) = 2

C19_IssuedCertificateReturned ==
    \A p \in Procs :
        (IsDone(p, "getCertificate") /\ req[p].certs # {}) =>
            /\ res[p].status = 200
            /\ \E c \in req[p].certs : c.id = res[p].certificate

\* ---- C21 (SpecCert): for a student enrolled in a course without chapters,
\* getCourseProgress and getMyProgress answer 200 with a completion percentage
\* of 0, and checkCertificateStatus answers 200 with eligible = false.
C21_NoChaptersZeroPercent ==
    \A p \in Procs :
        (/\ pc[p] = "done"
         /\ req[p].user \in Students
         /\ req[p].course \in Courses
         /\ Enrolled(req[p].course, req[p].user)
         /\ ChaptersOf(req[p].course) = {}) =>
            /\ req[p].op \in {"getCourseProgress", "getMyProgress"} =>
                  res[p].status = 200 /\ res[p].percentage = 0
            /\ req[p].op = "checkCertificateStatus" =>
                  res[p].status = 200 /\ ~res[p].eligible

\* the ids of a list before position i
Before(ids, i) == {ids[j] : j \in 1..(i - 1)}

\* the (course, student) pairs of enrollment rows
Pairs(rows) == {<<ca.course_id, ca.student_id>> : ca \in rows}

\* ---- C22 (SpecAssign): while an assignCourse request runs, and after it ended
\* with a failure response, the enrollment table is as the request found it;
\* after it ended with success the table is what it found plus exactly one row
\* for each id of the list that is a student and was not enrolled in the
\* course, and each position of the list is answered once: by an assignment, or
\* by an error when the id is not a student or is enrolled already (before the
\* request or by an earlier position of the list).
C22_AssignIsAtomicBatch ==
    \A p \in Procs :
        req[p].op = "assignCourse" =>
            LET ids == req[p].student_ids
                old == {ca.student_id : ca \in {x \in req[p].snap :
                                                   x.course_id = req[p].course}}
                skipped == {i \in 1..Len(ids) :
                               \/ ids[i] \notin Students
                               \/ ids[i] \in old
                               \/ ids[i] \in Before(ids, i)}
                new == {ids[i] : i \in (1..Len(ids)) \ skipped}
            IN IF pc[p] = "done" /\ res[p].status = 200
               THEN /\ req[p].snap \subseteq course_assignments
                    /\ Pairs(course_assignments \ req[p].snap) =
                          {<<req[p].course, id>> : id \in new}
                    /\ Cardinality(course_assignments \ req[p].snap) = Cardinality(new)
                    /\ Len(res[p].errors) = Cardinality(skipped)
                    /\ Len(res[p].assignments) = Cardinality(new)
                    /\ \A k \in 1..Len(res[p].errors) :
                          \E i \in skipped :
                              /\ res[p].errors[k].student_id = ids[i]
                              /\ res[p].errors[k].error =
                                    IF ids[i] \notin Students
                                    THEN "Student not found" ELSE "Already assigned"
                    /\ {res[p].assignments[k] : k \in 1..Len(res[p].assignments)} =
                          course_assignments \ req[p].snap
               ELSE course_assignments = req[p].snap

C22_Witness ==
    \E p \in Procs :
        /\ IsDone(p, "assignCourse")
        /\ res[p].status = 500
        /\ req[p].pending # {}
        /\ req[p].errors # <<>>
        /\ req[p].snap # {}

\* ---- C23 (SpecAssignConc): in every reachable state the enrollment table has
\* at most one row per (course, student) and every enrolled user is a student,
\* also when one list names an id twice and when two assignCourse requests of
\* the same course and student run concurrently.
C23_EnrollmentUniqueStudents ==
    /\ \A ca \in course_assignments : ca.student_id \in Students
    /\ \A a \in course_assignments : \A b \in course_assignments :
          (a.course_id = b.course_id /\ a.student_id = b.student_id) => a.id = b.id

C23_Witness ==
    \E p \in Procs : \E q \in Procs \ {p} : \E st \in Students :
        /\ IsDone(p, "assignCourse") /\ res[p].status = 200
        /\ req[p].student_ids = <<st, st>>
        /\ Len(res[p].assignments) = 1
        /\ IsDone(q, "assignCourse") /\ res[q].status = 500
        /\ req[q].course = req[p].course
        /\ req[q].student_ids = <<st>>
        /\ req[q].snap = req[p].snap

\* the chapter is accessible to the student: it is the first of its course, or
\* the chapter before it is completed by the student
Accessible(studentId, courseId, seq) ==
    seq = 1 \/ CompletedAt(studentId, courseId, seq - 1)

\* ---- C24 (SpecView): a read answered to a student carries the content of a
\* chapter only if the chapter is accessible to that student: getChapterById
\* answers 200 only for an accessible chapter of a course the student is
\* enrolled in, and no row of the list getChapters sends the student has the
\* content fields of a locked chapter.
C24_NoContentOfLockedChapter ==
    \A p \in Procs :
        (pc[p] = "done" /\ res[p].status = 200 /\ req[p].user \in Students) =>
            /\ req[p].op = "getChapterById" =>
                  /\ Enrolled(req[p].course, req[p].user)
                  /\ Accessible(req[p].user, req[p].course, req[p].ord)
            /\ req[p].op = "getChapters" =>
                  \A e \in res[p].chapters :
                      (e.chapter_id # NoChapter /\ e.title # "-") =>
                          Accessible(req[p].user, req[p].course, e.sequence_order)

GateOfGetChapterById ==
    \A p \in Procs :
        (IsDone(p, "getChapterById") /\ res[p].status = 200
            /\ req[p].user \in Students) =>
                /\ Enrolled(req[p].course, req[p].user)
                /\ Accessible(req[p].user, req[p].course, req[p].ord)

\* the chapters of the course before the given order that the student has not
\* completed
OpenBefore(studentId, courseId, seq) ==
    {ch \in ChaptersOf(courseId) :
        ch.sequence_order < seq /\ ~Completed(studentId, ch.id)}

\* ---- C25 (SpecCert): with requests run one at a time, a completeChapter by an
\* enrolled student on the lowest-ordered chapter of the course that the student
\* has not completed answers 200 and leaves the chapter with the next order
\* unlocked; when that chapter was the last of the course the response reports
\* completed = total and 100 percent and the student is eligible for the
\* certificate; a completeChapter on a chapter that comes after an uncompleted
\* one answers 403.
C25_NextChapterAlwaysCompletes ==
    \A p \in Procs :
        (IsDone(p, "completeChapter")
            /\ req[p].pre \in {"locked", "unlocked-incomplete"}
            /\ Enrolled(req[p].course, req[p].user)) =>
                IF OpenBefore(req[p].user, req[p].course, req[p].ord) = {}
                THEN /\ res[p].status = 200
                     /\ Completed(req[p].user, req[p].chapter)
                     /\ \A ch \in ChaptersOf(req[p].course) :
                           ch.sequence_order = req[p].ord + 1 =>
                               IsUnlocked(req[p].user, ch)
                     /\ req[p].ord = Cardinality(ChaptersOf(req[p].course)) =>
                           /\ res[p].completed = res[p].total
                           /\ res[p].percentage = 10000
                           /\ CompletionEligibility(
                                 TotalChapters(req[p].course),
                                 CompletedChapters(req[p].user, req[p].course)).eligible
                ELSE /\ res[p].status = 403
                     /\ ~Completed(req[p].user, req[p].chapter)

C25_Witness ==
    \E p \in Procs :
        /\ IsDone(p, "completeChapter")
        /\ res[p].status = 200
        /\ req[p].ord = 3
        /\ res[p].total = 3
        /\ res[p].percentage = 10000
        /\ certificates = {}

\* the enrollment table has a row of the course and the student
HasEnrollment(courseId, studentId) ==
    \E a \in course_assignments : a.course_id = courseId /\ a.student_id = studentId

\* the outcome completeChapter owes a request, by the first precondition that
\* fails for what the request found
C26_Response ==
    \A p \in Procs :
        IsDone(p, "completeChapter") =>
            IF req[p].pre = "absent"
            THEN res[p].status = 404 /\ res[p].error = "Chapter not found"
            ELSE IF ~HasEnrollment(req[p].course, req[p].user)
            THEN /\ res[p].status = 403
                 /\ res[p].error = "You are not enrolled in this course"
            ELSE IF req[p].ord > 1
                    /\ ~CompletedAt(req[p].user, req[p].course, req[p].ord - 1)
            THEN /\ res[p].status = 403
                 /\ res[p].error = "You must complete the previous chapter first"
            ELSE IF req[p].pre = "completed"
            THEN res[p].status = 400 /\ res[p].error = "Chapter already completed"
            ELSE res[p].status = 200 /\ Completed(req[p].user, req[p].chapter)

\* a step of a completeChapter request that writes is the upsert of a request
\* all of whose preconditions hold, and it writes the row with completed = true
C26_Write ==
    \A p \in Procs :
        (req'[p].op = "completeChapter" /\ pc'[p] # pc[p] /\ tables' # tables) =>
            /\ pc[p] = "cc_upsert"
            /\ \E ch \in chapters : ch.id = req[p].chapter
            /\ HasEnrollment(req[p].course, req[p].user)
            /\ req[p].ord = 1 \/ CompletedAt(req[p].user, req[p].course, req[p].ord - 1)
            /\ ~Completed(req[p].user, req[p].chapter)
            /\ \E r \in progress' :
                  r.student_id = req[p].user /\ r.chapter_id = req[p].chapter
                     /\ r.completed

C27_NotVisibleLooksAbsent ==
    \A p \in Procs : \A q \in Procs :
        (/\ IsDone(p, "completeChapter")
         /\ IsDone(q, "completeChapter")
         /\ req[p].user = req[q].user
         /\ req[p].pre = "absent"
         /\ req[q].pre # "absent"
         /\ ~HasEnrollment(req[q].course, req[q].user)) =>
            res[p] = res[q]

C29_ProgressRowsMatchCourse ==
    /\ \A r \in progress :
          /\ Enrolled(r.course_id, r.student_id)
          /\ \E ch \in chapters : ch.id = r.chapter_id /\ ch.course_id = r.course_id
    /\ \A s \in Students : \A c \in Courses :
          progress \ DeleteProgressOf(s, c) = RowsOf(s, c)

C29_Witness ==
    /\ \E r \in progress : r.student_id = "s1" /\ r.course_id = "c1"
    /\ \E r \in progress : r.student_id = "s1" /\ r.course_id = "c2"
    /\ \E r \in progress : r.student_id = "s2" /\ r.course_id = "c1"
    /\ \E p \in Procs :
          /\ IsDone(p, "completeChapter")
          /\ req[p].user = "s2" /\ req[p].course = "c2"
          /\ res[p].status = 403

\* ---- C30 (SpecFrame): no step of a completeChapter changes a chapter, an
\* enrollment or a certificate; its upsert is the only step that changes the
\* Progress table, and it changes it to the same table with the one row of
\* (student, chapter) present and completed, every other row as it was; a
\* request answered 200 has gone through that step.
C30_Step ==
    \A p \in Procs :
        (pc'[p] # pc[p] /\ req'[p].op = "completeChapter") =>
            /\ <<chapters, course_assignments, certificates>>' =
                  <<chapters, course_assignments, certificates>>
            /\ IF pc[p] = "cc_upsert" /\ pc'[p] = "cc_completion"
               THEN /\ progress' \ ProgressRows(req[p].user, req[p].chapter)' =
                          progress \ ProgressRows(req[p].user, req[p].chapter)
                    /\ \E ch \in ChapterRows(req[p].chapter) :
                          ProgressRows(req[p].user, req[p].chapter)' =
                              {[student_id |-> req[p].user,
                                chapter_id |-> req[p].chapter,
                                course_id |-> ch.course_id,
                                completed |-> TRUE]}
               ELSE progress' = progress
            /\ (pc'[p] = "done" /\ res'[p].status = 200) => pc[p] = "cc_completion"

C30_CompleteChangesOneRow == [][C30_Step]_vars

C30_Witness ==
    \E p \in Procs :
        /\ IsDone(p, "completeChapter")
        /\ res[p].status = 200
        /\ res[p].percentage = 10000
        /\ certificates # {}
        /\ \E r \in progress : r.student_id # req[p].user /\ r.chapter_id = req[p].chapter
        /\ \E r \in progress : r.student_id = req[p].user /\ r.chapter_id # req[p].chapter
        /\ \A c \in certificates :
              c.student_id = req[p].user => c.course_id # req[p].course

====
